---- MODULE Spec2Model ----
(***************************************************************************)
(* Model of the logging facade of lwm-galactic/log: the Options record,    *)
(* the functional option setters, options.build, options.Validate and the  *)
(* Logger methods Build, SetOptions, WithValues, Flush and the levelled    *)
(* logging calls.  Go strings that the code converts (strings.ToLower,     *)
(* zapcore.Level.UnmarshalText) are sequences of one-character strings;    *)
(* strings that are only compared are TLA+ strings.                        *)
(***************************************************************************)
EXTENDS Integers, Sequences, FiniteSets, TLC

VARIABLES
    opts,      \* the heap of Options records, by address 1..Len(opts)
    logger,    \* the heap of Logger structs, by address 1..Len(logger)
    th,        \* each goroutine's position in SetOptions or Build, with its locals
    written,   \* what the last logging call wrote: one line per sink written to
    result,    \* what the last completed call returned to its caller
    derived,   \* the WithValues calls that returned a new logger: (parent, child, fields)
    crashed,   \* the process ended: a nil dereference, a Panic or a Fatal record
    ops,       \* the number of calls started so far
    input      \* the argument list the caller holds for WithValues

vars == <<opts, logger, th, written, result, derived, crashed, ops, input>>

-----------------------------------------------------------------------------
(* Bounds of the model. *)

MaxLoggers == 3
MaxOps == 4
MaxArgs == 3
MaxPaths == 2
MaxFormatLen == 2

Threads == {1, 2}

-----------------------------------------------------------------------------
(* Level, LevelNameMapping, OutputPath, the format names. *)

DebugLevel == -1
InfoLevel == 0
WarnLevel == 1
ErrorLevel == 2
PanicLevel == 3
FatalLevel == 4

Levels == {DebugLevel, InfoLevel, WarnLevel, ErrorLevel, PanicLevel, FatalLevel}

\* A missing key of a Go map reads as the zero value, the empty string.
LevelNameMapping(level) ==
    CASE level = DebugLevel -> <<"D", "E", "B", "U", "G">>
      [] level = InfoLevel -> <<"I", "N", "F", "O">>
      [] level = WarnLevel -> <<"W", "A", "R", "N">>
      [] level = ErrorLevel -> <<"E", "R", "R", "O", "R">>
      [] level = PanicLevel -> <<"P", "A", "N", "I", "C">>
      [] level = FatalLevel -> <<"F", "A", "T", "A", "L">>
      [] OTHER -> <<>>

consoleFormat == <<"c", "o", "n", "s", "o", "l", "e">>
jsonFormat == <<"j", "s", "o", "n">>

FileOutputPath == "file"
StdoutOutputPath == "stdout"

-----------------------------------------------------------------------------
(* strings.ToLower, on the letters the model's strings are made of. *)

UpperLetters == <<"A", "B", "C", "D", "E", "F", "G", "I", "J", "L", "N", "O", "P", "R", "S", "T", "U", "W", "X">>
LowerLetters == <<"a", "b", "c", "d", "e", "f", "g", "i", "j", "l", "n", "o", "p", "r", "s", "t", "u", "w", "x">>

LowerChar(c) ==
    IF \E i \in DOMAIN UpperLetters : UpperLetters[i] = c
    THEN LowerLetters[CHOOSE i \in DOMAIN UpperLetters : UpperLetters[i] = c]
    ELSE c

ToLower(s) == [i \in DOMAIN s |-> LowerChar(s[i])]

-----------------------------------------------------------------------------
(* The backend's levels (zapcore.Level) and its parser, as build uses them. *)

ZapDebugLevel == -1
ZapInfoLevel == 0
ZapWarnLevel == 1
ZapErrorLevel == 2
ZapDPanicLevel == 3
ZapPanicLevel == 4
ZapFatalLevel == 5

\* zapcore.Level.CapitalString
ZapCapitalString(z) ==
    CASE z = ZapDebugLevel -> <<"D", "E", "B", "U", "G">>
      [] z = ZapInfoLevel -> <<"I", "N", "F", "O">>
      [] z = ZapWarnLevel -> <<"W", "A", "R", "N">>
      [] z = ZapErrorLevel -> <<"E", "R", "R", "O", "R">>
      [] z = ZapDPanicLevel -> <<"D", "P", "A", "N", "I", "C">>
      [] z = ZapPanicLevel -> <<"P", "A", "N", "I", "C">>
      [] z = ZapFatalLevel -> <<"F", "A", "T", "A", "L">>
      [] OTHER -> <<"L", "E", "V", "E", "L">>

ZapLevels == {ZapDebugLevel, ZapInfoLevel, ZapWarnLevel, ZapErrorLevel,
              ZapDPanicLevel, ZapPanicLevel, ZapFatalLevel}

\* zapcore.Level.unmarshalText: the names in capitals or in lower case; the
\* empty text is Info ("make the zero value useful").
unmarshalText(text) ==
    IF text = <<>>
    THEN [ok |-> TRUE, level |-> ZapInfoLevel]
    ELSE IF \E z \in ZapLevels : text = ZapCapitalString(z) \/ text = ToLower(ZapCapitalString(z))
         THEN [ok |-> TRUE,
               level |-> CHOOSE z \in ZapLevels :
                            text = ZapCapitalString(z) \/ text = ToLower(ZapCapitalString(z))]
         ELSE [ok |-> FALSE, level |-> ZapInfoLevel]

\* zapcore.Level.UnmarshalText: the text as given, then lower-cased.
UnmarshalText(text) ==
    IF unmarshalText(text).ok THEN unmarshalText(text) ELSE unmarshalText(ToLower(text))

\* A faulty variant: the facade's ordinal taken as the backend's.
ResolveLevel_Ordinal(level) == IF level \in ZapLevels THEN level ELSE ZapInfoLevel

\* options.build, the level: parse the level's name; Info when it does not parse.
ResolveLevel(level) ==
    IF UnmarshalText(LevelNameMapping(level)).ok
    THEN UnmarshalText(LevelNameMapping(level)).level
    ELSE ZapInfoLevel

-----------------------------------------------------------------------------
(* Options and the functional option setters. *)

newDefaultOptions ==
    [OutputPaths |-> <<StdoutOutputPath>>,
     FilePath |-> "app.log",
     ErrorOutputPaths |-> <<"stderr">>,
     Level |-> InfoLevel,
     Format |-> consoleFormat,
     DisableCaller |-> FALSE,
     DisableStacktrace |-> FALSE,
     EnableColor |-> TRUE,
     Development |-> FALSE,
     MaxSize |-> 100,
     MaxBackups |-> 5,
     MaxAge |-> 7,
     Compress |-> FALSE,
     Name |-> "app-logger"]

\* An Option is a closure over one value; it is kept as the setter's name and
\* the value it closes over (one field per type of value).
WithLevel(level) == [f |-> "WithLevel", n |-> level, b |-> FALSE, s |-> "", p |-> <<>>]
WithOutputPaths(paths) == [f |-> "WithOutputPaths", n |-> 0, b |-> FALSE, s |-> "", p |-> paths]
WithErrorOutputPaths(paths) == [f |-> "WithErrorOutputPaths", n |-> 0, b |-> FALSE, s |-> "", p |-> paths]
WithDisableCaller(v) == [f |-> "WithDisableCaller", n |-> 0, b |-> v, s |-> "", p |-> <<>>]
WithDisableStacktrace(v) == [f |-> "WithDisableStacktrace", n |-> 0, b |-> v, s |-> "", p |-> <<>>]
WithEnableColor(v) == [f |-> "WithEnableColor", n |-> 0, b |-> v, s |-> "", p |-> <<>>]
WithName(name) == [f |-> "WithName", n |-> 0, b |-> FALSE, s |-> name, p |-> <<>>]
WithDevelopment(v) == [f |-> "WithDevelopment", n |-> 0, b |-> v, s |-> "", p |-> <<>>]
WithMaxSize(v) == [f |-> "WithMaxSize", n |-> v, b |-> FALSE, s |-> "", p |-> <<>>]
WithMaxBackups(v) == [f |-> "WithMaxBackups", n |-> v, b |-> FALSE, s |-> "", p |-> <<>>]
WithMaxAge(v) == [f |-> "WithMaxAge", n |-> v, b |-> FALSE, s |-> "", p |-> <<>>]
WithCompress(v) == [f |-> "WithCompress", n |-> 0, b |-> v, s |-> "", p |-> <<>>]
WithFilePath(path) == [f |-> "WithFilePath", n |-> 0, b |-> FALSE, s |-> path, p |-> <<>>]

\* opt(l.opt): the closure's assignment to its one field.
ApplyOption(opt, o) ==
    CASE opt.f = "WithLevel" -> [o EXCEPT !.Level = opt.n]
      [] opt.f = "WithOutputPaths" -> [o EXCEPT !.OutputPaths = opt.p]
      [] opt.f = "WithErrorOutputPaths" -> [o EXCEPT !.ErrorOutputPaths = opt.p]
      [] opt.f = "WithDisableCaller" -> [o EXCEPT !.DisableCaller = opt.b]
      [] opt.f = "WithDisableStacktrace" -> [o EXCEPT !.DisableStacktrace = opt.b]
      [] opt.f = "WithEnableColor" -> [o EXCEPT !.EnableColor = opt.b]
      [] opt.f = "WithName" -> [o EXCEPT !.Name = opt.s]
      [] opt.f = "WithDevelopment" -> [o EXCEPT !.Development = opt.b]
      [] opt.f = "WithMaxSize" -> [o EXCEPT !.MaxSize = opt.n]
      [] opt.f = "WithMaxBackups" -> [o EXCEPT !.MaxBackups = opt.n]
      [] opt.f = "WithMaxAge" -> [o EXCEPT !.MaxAge = opt.n]
      [] opt.f = "WithCompress" -> [o EXCEPT !.Compress = opt.b]
      [] opt.f = "WithFilePath" -> [o EXCEPT !.FilePath = opt.s]

RECURSIVE ApplyAll(_, _)
\* The setter loop of SetOptions run to its end on o.
ApplyAll(batch, o) ==
    IF batch = <<>> THEN o ELSE ApplyAll(Tail(batch), ApplyOption(Head(batch), o))

-----------------------------------------------------------------------------
(* options.Validate *)

\* A faulty variant: the format compared as given, without lower-casing.
Validate_CaseSensitive(o) ==
    IF o.Format # consoleFormat /\ o.Format # jsonFormat
    THEN <<[msg |-> "not a valid log format", format |-> o.Format]>>
    ELSE <<>>

\* The list of errors: fmt.Errorf("not a valid log format: %q", o.Format).
Validate(o) ==
    LET format == ToLower(o.Format)
    IN  IF format # consoleFormat /\ format # jsonFormat
        THEN <<[msg |-> "not a valid log format", format |-> o.Format]>>
        ELSE <<>>

-----------------------------------------------------------------------------
(* options.build, piece by piece in the order the code reads the Options. *)

\* A *zap.Logger: the cores of its Tee, its name and its bound fields.
NoHandle == [isNil |-> TRUE, cores |-> <<>>, name |-> "", fields |-> <<>>]

ErrNone == "nil"
ErrNoPaths == "no valid output paths configured"

\* The encoder and its level renderer.
EncoderOf(o) ==
    [kind |-> IF o.Format = jsonFormat THEN "json" ELSE "console",
     encodeLevel |-> IF o.Format = consoleFormat /\ o.EnableColor
                     THEN "CapitalColorLevelEncoder"
                     ELSE "CapitalLevelEncoder"]

NoEncoder == [kind |-> "", encodeLevel |-> ""]

StdoutWriter ==
    [Filename |-> "os.Stdout", MaxSize |-> 0, MaxBackups |-> 0, MaxAge |-> 0, Compress |-> FALSE]

StdoutCore(encoder, zapLevel) ==
    [sink |-> StdoutOutputPath, encoder |-> encoder, level |-> zapLevel, writer |-> StdoutWriter]

FileCore(o, encoder, zapLevel) ==
    [sink |-> FileOutputPath, encoder |-> encoder, level |-> zapLevel,
     writer |-> [Filename |-> o.FilePath, MaxSize |-> o.MaxSize, MaxBackups |-> o.MaxBackups,
                 MaxAge |-> o.MaxAge, Compress |-> o.Compress]]

RECURSIVE CoresFrom_StdoutOnly(_, _, _, _)
\* A faulty variant: the "file" branch is lost.
CoresFrom_StdoutOnly(paths, o, encoder, zapLevel) ==
    IF paths = <<>> THEN <<>>
    ELSE LET rest == CoresFrom_StdoutOnly(Tail(paths), o, encoder, zapLevel)
         IN  IF Head(paths) = StdoutOutputPath
             THEN <<StdoutCore(encoder, zapLevel)>> \o rest
             ELSE rest

RECURSIVE CoresFrom_Dedup(_, _, _, _)
\* A faulty variant: a sink kind that already has a core gets no second one.
CoresFrom_Dedup(paths, o, encoder, zapLevel) ==
    IF paths = <<>> THEN <<>>
    ELSE LET init == SubSeq(paths, 1, Len(paths) - 1)
             last == paths[Len(paths)]
             rest == CoresFrom_Dedup(init, o, encoder, zapLevel)
         IN  IF \E i \in DOMAIN init : init[i] = last THEN rest
             ELSE IF last = StdoutOutputPath THEN Append(rest, StdoutCore(encoder, zapLevel))
             ELSE IF last = FileOutputPath THEN Append(rest, FileCore(o, encoder, zapLevel))
             ELSE rest

RECURSIVE CoresFrom(_, _, _, _)
\* The loop over o.OutputPaths: one core per "stdout" or "file" entry, in
\* order; any other entry is skipped.
CoresFrom(paths, o, encoder, zapLevel) ==
    IF paths = <<>> THEN <<>>
    ELSE LET rest == CoresFrom(Tail(paths), o, encoder, zapLevel)
         IN  IF Head(paths) = StdoutOutputPath
             THEN <<StdoutCore(encoder, zapLevel)>> \o rest
             ELSE IF Head(paths) = FileOutputPath
             THEN <<FileCore(o, encoder, zapLevel)>> \o rest
             ELSE rest

\* zap.New(zapcore.NewTee(cores...), ...) and Named(o.Name) when it is not empty.
NewZapLogger(cores, name) ==
    [isNil |-> FALSE, cores |-> cores, name |-> name, fields |-> <<>>]

\* build run on one value of the Options: (logger, err).
build(o) ==
    LET zapLevel == ResolveLevel(o.Level)
        encoder == EncoderOf(o)
        cores == CoresFrom(o.OutputPaths, o, encoder, zapLevel)
    IN  IF Len(cores) = 0
        THEN [logger |-> NoHandle, err |-> ErrNoPaths]
        ELSE [logger |-> NewZapLogger(cores, o.Name), err |-> ErrNone]

-----------------------------------------------------------------------------
(* Go values passed to WithValues, and fmt.Sprintf("%v", key). *)

GoString(s) == [t |-> "string", s |-> s, i |-> 0, b |-> FALSE]
GoInt(i) == [t |-> "int", s |-> "", i |-> i, b |-> FALSE]
GoBool(b) == [t |-> "bool", s |-> "", i |-> 0, b |-> b]

Digits == <<"0", "1", "2", "3", "4", "5", "6", "7", "8", "9">>

RECURSIVE Itoa(_)
\* The decimal digits of an integer.
Itoa(i) ==
    IF i < 0 THEN "-" \o Itoa(0 - i)
    ELSE IF i < 10 THEN Digits[i + 1]
    ELSE Itoa(i \div 10) \o Digits[(i % 10) + 1]

\* fmt.Sprintf("%v", v)
Sprint(v) ==
    CASE v.t = "string" -> v.s
      [] v.t = "int" -> Itoa(v.i)
      [] v.t = "bool" -> IF v.b THEN "true" ELSE "false"

Missing == GoString("MISSING")

RECURSIVE FieldsFrom_DropOdd(_)
\* A faulty variant: a key without a value is dropped.
FieldsFrom_DropOdd(kv) ==
    IF Len(kv) < 2 THEN <<>>
    ELSE <<[key |-> Sprint(kv[1]), value |-> kv[2]]>> \o FieldsFrom_DropOdd(SubSeq(kv, 3, Len(kv)))

RECURSIVE FieldsFrom(_)
\* The loop of WithValues: i += 2 over keysAndValues, one zap.Any per key.
FieldsFrom(kv) ==
    IF Len(kv) = 0 THEN <<>>
    ELSE LET key == kv[1]
             val == IF 1 < Len(kv) THEN kv[2] ELSE Missing
         IN  <<[key |-> Sprint(key), value |-> val]>> \o FieldsFrom(SubSeq(kv, 3, Len(kv)))

\* zap's Logger.With: a clone of the handle with the fields appended.
With(h, fields) == [h EXCEPT !.fields = @ \o fields]

-----------------------------------------------------------------------------
(* The levelled logging calls: what the handle's Tee writes for one record. *)

\* l.logger.Debug / Info / Warn / Error / Panic / Fatal (and the f and w forms).
MethodLevel(m) ==
    CASE m = "Debug" -> ZapDebugLevel
      [] m = "Info" -> ZapInfoLevel
      [] m = "Warn" -> ZapWarnLevel
      [] m = "Error" -> ZapErrorLevel
      [] m = "Panic" -> ZapPanicLevel
      [] m = "Fatal" -> ZapFatalLevel

Line(core, h, z) ==
    [sink |-> core.sink, encoder |-> core.encoder, level |-> z, name |-> h.name,
     fields |-> h.fields]

RECURSIVE TeeLines(_, _, _)
TeeLines(cores, h, z) ==
    IF cores = <<>> THEN <<>>
    ELSE IF Head(cores).level <= z
         THEN <<Line(Head(cores), h, z)>> \o TeeLines(Tail(cores), h, z)
         ELSE TeeLines(Tail(cores), h, z)

\* The record at level z through handle h: one line per core whose level enables it.
Write(h, z) == TeeLines(h.cores, h, z)

-----------------------------------------------------------------------------
(* The state machine. *)

Idle ==
    [pc |-> "idle", l |-> 0, batch |-> <<>>, i |-> 0, before |-> newDefaultOptions,
     zapLevel |-> ZapInfoLevel, encoder |-> NoEncoder, cores |-> <<>>,
     built |-> NoHandle, err |-> ErrNone, cands |-> {}]

NoResult ==
    [op |-> "", l |-> 0, ret |-> 0, err |-> ErrNone, errs |-> <<>>, args |-> <<>>]

NoWrite == [l |-> 0, level |-> ZapInfoLevel, lines |-> <<>>]

\* NewLoggerByOption(options): the struct with opt set and a nil handle.
NewLoggerByOption(o) == [opt |-> o, logger |-> NoHandle, mu |-> FALSE]

InitWith(o, kv) ==
    /\ opts = <<o>>
    /\ logger = <<NewLoggerByOption(1)>>
    /\ th = [t \in Threads |-> Idle]
    /\ written = NoWrite
    /\ result = NoResult
    /\ derived = {}
    /\ crashed = FALSE
    /\ ops = 0
    /\ input = kv

\* NewLogger()
Init == InitWith(newDefaultOptions, <<>>)

Running == ~crashed
CanStart(t) == Running /\ th[t].pc = "idle" /\ ops < MaxOps

OptOf(l) == logger[l].opt

\* The SetOptions calls that hold their mutex, on the Options record o.
Setting(o) == {s \in Threads : th[s].pc = "set" /\ OptOf(th[s].l) = o}

(* SetOptions: l.mu.Lock() *)
SetOptionsLock(t, l, batch) ==
    /\ CanStart(t)
    /\ ~logger[l].mu
    /\ logger' = [logger EXCEPT ![l].mu = TRUE]
    /\ th' = [th EXCEPT ![t] = [Idle EXCEPT !.pc = "set", !.l = l, !.batch = batch,
                                            !.i = 1, !.before = opts[OptOf(l)]]]
    /\ ops' = ops + 1
    /\ UNCHANGED <<opts, written, result, derived, crashed, input>>

(* SetOptions: one turn of the loop, opt(l.opt) *)
SetOptionsApply(t) ==
    /\ Running
    /\ th[t].pc = "set"
    /\ th[t].i <= Len(th[t].batch)
    /\ opts' = [opts EXCEPT ![OptOf(th[t].l)] = ApplyOption(th[t].batch[th[t].i], @)]
    /\ th' = [th EXCEPT ![t].i = @ + 1]
    /\ UNCHANGED <<logger, written, result, derived, crashed, ops, input>>

(* SetOptions: the deferred l.mu.Unlock() and the return *)
SetOptionsUnlock(t) ==
    /\ Running
    /\ th[t].pc = "set"
    /\ th[t].i > Len(th[t].batch)
    /\ logger' = [logger EXCEPT ![th[t].l].mu = FALSE]
    /\ th' = [s \in Threads |->
                IF s = t THEN Idle
                ELSE IF th[s].pc \in {"enc", "cores", "name", "ret"}
                        /\ OptOf(th[s].l) = OptOf(th[t].l)
                     THEN [th[s] EXCEPT !.cands = @ \cup {opts[OptOf(th[t].l)]}]
                     ELSE th[s]]
    /\ result' = [NoResult EXCEPT !.op = "SetOptions", !.l = th[t].l]
    /\ UNCHANGED <<opts, written, derived, crashed, ops, input>>

(* Build -> build: the level, from o.Level *)
BuildLevel(t, l) ==
    /\ CanStart(t)
    /\ th' = [th EXCEPT ![t] =
                [Idle EXCEPT !.pc = "enc", !.l = l,
                             !.zapLevel = ResolveLevel(opts[OptOf(l)].Level),
                             !.cands = IF Setting(OptOf(l)) = {}
                                       THEN {opts[OptOf(l)]}
                                       ELSE {th[s].before : s \in Setting(OptOf(l))}]]
    /\ ops' = ops + 1
    /\ UNCHANGED <<opts, logger, written, result, derived, crashed, input>>

(* build: the encoder, from o.Format and o.EnableColor *)
BuildEncoder(t) ==
    /\ Running
    /\ th[t].pc = "enc"
    /\ th' = [th EXCEPT ![t].encoder = EncoderOf(opts[OptOf(th[t].l)]), ![t].pc = "cores"]
    /\ UNCHANGED <<opts, logger, written, result, derived, crashed, ops, input>>

(* build: the cores, from o.OutputPaths and the rotation settings; the error
   when there is none *)
BuildCores(t) ==
    /\ Running
    /\ th[t].pc = "cores"
    /\ LET o == opts[OptOf(th[t].l)]
           cores == CoresFrom(o.OutputPaths, o, th[t].encoder, th[t].zapLevel)
       IN  th' = [th EXCEPT ![t].cores = cores,
                            ![t].err = IF Len(cores) = 0 THEN ErrNoPaths ELSE ErrNone,
                            ![t].pc = IF Len(cores) = 0 THEN "ret" ELSE "name"]
    /\ UNCHANGED <<opts, logger, written, result, derived, crashed, ops, input>>

(* build: zap.New over the Tee, named from o.Name *)
BuildName(t) ==
    /\ Running
    /\ th[t].pc = "name"
    /\ th' = [th EXCEPT ![t].built = NewZapLogger(th[t].cores, opts[OptOf(th[t].l)].Name),
                        ![t].pc = "ret"]
    /\ UNCHANGED <<opts, logger, written, result, derived, crashed, ops, input>>

\* A faulty variant: the handle is assigned before the error is looked at.
BuildInstall_Unchecked(h, built, err) == built

\* Logger.Build after build returned: l.logger afterwards.
BuildInstall(h, built, err) == IF err # ErrNone THEN h ELSE built

(* Logger.Build: return err, or l.logger = logger and return nil *)
BuildReturn(t) ==
    /\ Running
    /\ th[t].pc = "ret"
    /\ logger' = [logger EXCEPT ![th[t].l].logger = BuildInstall(@, th[t].built, th[t].err)]
    /\ result' = [NoResult EXCEPT !.op = "Build", !.l = th[t].l, !.err = th[t].err]
    /\ th' = [th EXCEPT ![t] = Idle]
    /\ UNCHANGED <<opts, written, derived, crashed, ops, input>>

(* Info, Debug, Warn, Error, Panic, Fatal and their f and w forms: a nil handle
   is a nil dereference; Panic and Fatal end the process after the write *)
LogOp(l, m) ==
    /\ Running
    /\ ops < MaxOps
    /\ ops' = ops + 1
    /\ IF logger[l].logger.isNil
       THEN crashed' = TRUE /\ UNCHANGED written
       ELSE /\ written' = [l |-> l, level |-> MethodLevel(m),
                           lines |-> Write(logger[l].logger, MethodLevel(m))]
            /\ crashed' = (MethodLevel(m) >= ZapPanicLevel)
    /\ UNCHANGED <<opts, logger, th, result, derived, input>>

(* Flush: l.logger.Sync(), its error dropped *)
FlushOp(l) ==
    /\ Running
    /\ ops < MaxOps
    /\ ops' = ops + 1
    /\ IF logger[l].logger.isNil
       THEN crashed' = TRUE /\ UNCHANGED result
       ELSE crashed' = FALSE /\ result' = [NoResult EXCEPT !.op = "Flush", !.l = l]
    /\ UNCHANGED <<opts, logger, th, written, derived, input>>

\* A faulty variant: the copy gets Options of its own.
Derive_OwnOptions(parent, h, os) == [parent EXCEPT !.logger = h, !.opt = Len(os) + 1]

\* newLogger := *l; newLogger.logger = l.logger.With(fields...)
Derive(parent, h, os) == [parent EXCEPT !.logger = h]

(* WithValues *)
WithValuesOp(l, kv) ==
    /\ Running
    /\ ops < MaxOps
    /\ ops' = ops + 1
    /\ IF Len(kv) = 0
       THEN /\ result' = [NoResult EXCEPT !.op = "WithValues", !.l = l, !.ret = l, !.args = kv]
            /\ UNCHANGED <<logger, derived, crashed>>
       ELSE IF logger[l].logger.isNil
       THEN crashed' = TRUE /\ UNCHANGED <<logger, derived, result>>
       ELSE /\ Len(logger) < MaxLoggers
            /\ logger' = Append(logger, Derive(logger[l], With(logger[l].logger, FieldsFrom(kv)), opts))
            /\ derived' = derived \cup {[parent |-> l, child |-> Len(logger) + 1, kv |-> kv]}
            /\ result' = [NoResult EXCEPT !.op = "WithValues", !.l = l,
                                          !.ret = Len(logger) + 1, !.args = kv]
            /\ UNCHANGED crashed
    /\ UNCHANGED <<opts, th, written, input>>

(* Validate on the Options record o *)
ValidateOp(o) ==
    /\ Running
    /\ result.op # "Validate"
    /\ result' = [NoResult EXCEPT !.op = "Validate", !.errs = Validate(opts[o])]
    /\ UNCHANGED <<opts, logger, th, written, derived, crashed, ops, input>>

-----------------------------------------------------------------------------
(* The program: two goroutines calling the methods of the loggers that exist. *)

Key == GoString("key")
Value == GoString("value")

ArgMenu == {<<>>, <<Key>>, <<Key, Value>>}

BatchMenu ==
    {<<WithLevel(ErrorLevel), WithOutputPaths(<<FileOutputPath, StdoutOutputPath>>)>>,
     <<WithOutputPaths(<<"stderr">>)>>,
     <<>>}

LogMenu == {"Debug", "Error", "Fatal"}

Next ==
    \/ \E t \in Threads, l \in DOMAIN logger, batch \in BatchMenu : SetOptionsLock(t, l, batch)
    \/ \E t \in Threads : SetOptionsApply(t)
    \/ \E t \in Threads : SetOptionsUnlock(t)
    \/ \E t \in Threads, l \in DOMAIN logger : BuildLevel(t, l)
    \/ \E t \in Threads : BuildEncoder(t)
    \/ \E t \in Threads : BuildCores(t)
    \/ \E t \in Threads : BuildName(t)
    \/ \E t \in Threads : BuildReturn(t)
    \/ \E l \in DOMAIN logger, m \in LogMenu : LogOp(l, m)
    \/ \E l \in DOMAIN logger : FlushOp(l)
    \/ \E l \in DOMAIN logger, kv \in ArgMenu : WithValuesOp(l, kv)

Spec == Init /\ [][Next]_vars

-----------------------------------------------------------------------------
(* build and the logging calls on a logger made by NewLoggerByOption, for
   every Options record of a bounded set. *)

RECURSIVE SeqsUpTo(_, _)
\* The sequences over S of length at most n.
SeqsUpTo(S, n) ==
    IF n = 0 THEN {<<>>}
    ELSE SeqsUpTo(S, n - 1) \cup {Append(q, x) : q \in {r \in SeqsUpTo(S, n - 1) : Len(r) = n - 1}, x \in S}

PathInputs == SeqsUpTo({StdoutOutputPath, FileOutputPath, "stderr"}, MaxPaths)
LevelInputs == Levels \cup {-2, 5}
BuildFormats == {consoleFormat, jsonFormat, <<"J", "S", "O", "N">>}

BuildInputs ==
    {[newDefaultOptions EXCEPT !.OutputPaths = p, !.Level = lv, !.Format = f, !.EnableColor = c] :
        p \in PathInputs, lv \in LevelInputs, f \in BuildFormats, c \in BOOLEAN}

InitBuild == \E o \in BuildInputs : InitWith(o, <<>>)

LogMethods == {"Debug", "Info", "Warn", "Error", "Panic", "Fatal"}

NextBuild ==
    \/ BuildLevel(1, 1)
    \/ BuildEncoder(1)
    \/ BuildCores(1)
    \/ BuildName(1)
    \/ BuildReturn(1)
    \/ \E m \in LogMethods : LogOp(1, m)

SpecBuild == InitBuild /\ [][NextBuild]_vars

-----------------------------------------------------------------------------
(* Validate on every Options record of a bounded set of formats. *)

UpperChar(c) ==
    IF \E i \in DOMAIN LowerLetters : LowerLetters[i] = c
    THEN UpperLetters[CHOOSE i \in DOMAIN LowerLetters : LowerLetters[i] = c]
    ELSE c

RECURSIVE CaseVariants(_)
\* Every spelling of s in upper and lower case.
CaseVariants(s) ==
    IF s = <<>> THEN {<<>>}
    ELSE {<<c>> \o r : c \in {Head(s), UpperChar(Head(s))}, r \in CaseVariants(Tail(s))}

FormatInputs ==
    CaseVariants(consoleFormat) \cup CaseVariants(jsonFormat)
        \cup SeqsUpTo({"j", "J", "x"}, MaxFormatLen)
        \cup {<<"t", "e", "x", "t">>, <<"j", "s", "o">>, <<"j", "s", "o", "n", "x">>,
              <<"J", "S", "O", "N", " ">>}

ValidateInputs ==
    {[newDefaultOptions EXCEPT !.Format = f, !.Level = lv, !.OutputPaths = p, !.MaxSize = ms] :
        f \in FormatInputs, lv \in {InfoLevel, 9}, p \in {<<>>, <<StdoutOutputPath>>},
        ms \in {100, -1}}

InitValidate == \E o \in ValidateInputs : InitWith(o, <<>>)

NextValidate == ValidateOp(1)

SpecValidate == InitValidate /\ [][NextValidate]_vars

-----------------------------------------------------------------------------
(* WithValues on every argument list of a bounded set. *)

GoValues == {Key, Value, GoInt(10), GoBool(TRUE)}

ArgInputs == SeqsUpTo(GoValues, MaxArgs)

InitWithValues == \E kv \in ArgInputs : InitWith(newDefaultOptions, kv)

NextWithValues ==
    \/ BuildLevel(1, 1)
    \/ BuildEncoder(1)
    \/ BuildCores(1)
    \/ BuildName(1)
    \/ BuildReturn(1)
    \/ \E l \in DOMAIN logger : WithValuesOp(l, input)
    \/ \E l \in DOMAIN logger : LogOp(l, "Info")

SpecWithValues == InitWithValues /\ [][NextWithValues]_vars

-----------------------------------------------------------------------------
(* The claims. *)

Recognized(path) == path = StdoutOutputPath \/ path = FileOutputPath
RecognizedAt(paths) == {i \in DOMAIN paths : Recognized(paths[i])}
\* The index in paths of its j-th recognized entry.
NthRecognized(paths, j) ==
    CHOOSE i \in RecognizedAt(paths) : Cardinality({k \in RecognizedAt(paths) : k <= i}) = j

\* C1: Build returns nil and leaves a non-nil handle in the logger exactly when
\* the output paths hold at least one "stdout" or "file" entry; otherwise it
\* returns "no valid output paths configured". Entries that are neither are
\* skipped without an error.
C1_BuildSucceedsIffRecognizedPath ==
    result.op = "Build" =>
        LET paths == opts[OptOf(result.l)].OutputPaths
        IN  /\ (result.err = ErrNone) <=> (RecognizedAt(paths) # {})
            /\ result.err = ErrNone => ~logger[result.l].logger.isNil
            /\ result.err # ErrNone =>
                  result.err = "no valid output paths configured"

C1_Witness ==
    /\ result.op = "Build"
    /\ result.err = ErrNone
    /\ ~logger[result.l].logger.isNil
    /\ \E i \in DOMAIN opts[1].OutputPaths : ~Recognized(opts[1].OutputPaths[i])

\* C2: for each of the six Levels build resolves the backend level whose name
\* is LevelNameMapping[Level], and every core of the built handle has it; for
\* a Level outside the six it resolves Info, and the level never makes Build
\* fail.
C2_LevelResolvedByName ==
    LET level == opts[1].Level
        expect(z) == IF level \in Levels
                     THEN ZapCapitalString(z) = LevelNameMapping(level)
                     ELSE z = ZapInfoLevel
    IN  /\ \A t \in Threads : th[t].pc \in {"enc", "cores", "name", "ret"} => expect(th[t].zapLevel)
        /\ \A i \in DOMAIN logger[1].logger.cores : expect(logger[1].logger.cores[i].level)
        /\ result.op = "Build" /\ result.err # ErrNone => RecognizedAt(opts[1].OutputPaths) = {}

C2_Witness ==
    /\ opts[1].Level = PanicLevel
    /\ ~logger[1].logger.isNil
    /\ logger[1].logger.cores[1].level = ZapPanicLevel
    /\ ZapPanicLevel # PanicLevel

SameLetter(c, d) ==
    c = d \/ \E i \in DOMAIN UpperLetters : {c, d} = {UpperLetters[i], LowerLetters[i]}
EqualIgnoringCase(a, b) ==
    Len(a) = Len(b) /\ \A i \in DOMAIN a : SameLetter(a[i], b[i])

\* C3: Validate returns no error for a Format equal to "console" or "json"
\* whatever the case of its letters, and exactly one error, naming the Format
\* as given, for any other Format, whatever the other fields; it leaves the
\* Options as they were.
C3_ValidateChecksOnlyFormat ==
    /\ [](result.op = "Validate" =>
            LET format == opts[1].Format
            IN  IF EqualIgnoringCase(format, consoleFormat) \/ EqualIgnoringCase(format, jsonFormat)
                THEN result.errs = <<>>
                ELSE Len(result.errs) = 1 /\ result.errs[1].format = format)
    /\ [][result'.op = "Validate" => opts' = opts]_vars

C3_Witness ==
    /\ result.op = "Validate"
    /\ result.errs = <<>>
    /\ opts[1].Format = <<"J", "s", "O", "n">>
    /\ opts[1].Level = 9
    /\ opts[1].MaxSize = -1

\* The fields WithValues is said to bind for the argument list kv.
BoundFields(kv) ==
    [i \in 1..((Len(kv) + 1) \div 2) |->
        [key |-> Sprint(kv[2 * i - 1]),
         value |-> IF 2 * i <= Len(kv) THEN kv[2 * i] ELSE GoString("MISSING")]]

\* C4: WithValues with n arguments returns a logger whose handle is the
\* receiver's with ceil(n/2) fields appended in argument order, field i with
\* key the default formatting of argument 2i-1 and value argument 2i, or
\* "MISSING" for the last field of an odd n; with no argument it returns the
\* receiver and creates nothing.
C4_WithValuesBindsPairs ==
    [][/\ \A d \in derived' \ derived :
            /\ Len(d.kv) > 0
            /\ result'.ret = d.child
            /\ d.child \notin DOMAIN logger
            /\ Len(BoundFields(d.kv)) * 2 \in {Len(d.kv), Len(d.kv) + 1}
            /\ logger'[d.child].logger.fields
                  = logger[d.parent].logger.fields \o BoundFields(d.kv)
       /\ (result' # result /\ result'.op = "WithValues" /\ Len(result'.args) > 0)
            => derived' # derived
       /\ (result' # result /\ result'.op = "WithValues" /\ Len(result'.args) = 0)
            => result'.ret = result'.l /\ logger' = logger /\ derived' = derived]_vars

C4_Witness ==
    /\ result.op = "WithValues"
    /\ Len(result.args) = 3
    /\ result.args[1].t = "int"
    /\ Len(logger[result.ret].logger.fields) = 2
    /\ logger[result.ret].logger.fields[1].key = "10"
    /\ logger[result.ret].logger.fields[2].value = GoString("MISSING")

\* C5: the root logger's handle is nil at first, and a logger's handle changes
\* only in the return of a Build on that logger that succeeded, to the handle
\* that Build made: SetOptions, a failed Build, Flush, WithValues and the
\* logging calls leave it as it was.
C5_HandleChangesOnlyBySuccessfulBuild ==
    /\ logger[1].logger.isNil
    /\ [][\A l \in DOMAIN logger :
            logger'[l].logger # logger[l].logger =>
                \E t \in Threads :
                    /\ th[t].pc = "ret" /\ th'[t].pc = "idle"
                    /\ th[t].l = l
                    /\ th[t].err = ErrNone
                    /\ logger'[l].logger = th[t].built]_vars

C5_Witness ==
    /\ result.op = "Build"
    /\ result.err # ErrNone
    /\ ~logger[result.l].logger.isNil

\* C6: every record a logger derived by WithValues(k, v) emits carries the
\* bound field k=v, whatever calls were made on it or on its parent in between.
C6_DerivedRecordsCarryBoundFields ==
    \A d \in derived :
        (Len(d.kv) = 2 /\ written.l = d.child) =>
            \A i \in DOMAIN written.lines :
                \A j \in DOMAIN BoundFields(d.kv) :
                    \E k \in DOMAIN written.lines[i].fields :
                        written.lines[i].fields[k] = BoundFields(d.kv)[j]

\* C7: a logger derived by WithValues holds the address of its parent's
\* Options record and is another Logger struct: a setter applied through
\* either changes the record the other's Build reads, and the return of a
\* Build changes the handle of its own logger only.
C7_DerivedSharesOptionsOwnsHandle ==
    /\ [](\A d \in derived : d.child # d.parent /\ OptOf(d.child) = OptOf(d.parent))
    /\ [][\A t \in Threads :
            /\ (th[t].pc = "set" /\ th'[t].pc = "set" /\ th'[t].i = th[t].i + 1) =>
                  \A d \in derived :
                      th[t].l \in {d.parent, d.child} =>
                          /\ opts'[OptOf(d.parent)] = ApplyOption(th[t].batch[th[t].i], opts[OptOf(d.parent)])
                          /\ opts'[OptOf(d.child)] = opts'[OptOf(d.parent)]
            /\ (th[t].pc = "ret" /\ th'[t].pc = "idle") =>
                  \A l \in DOMAIN logger : l # th[t].l => logger'[l] = logger[l]]_vars

C7_Witness ==
    \E d \in derived :
        /\ result.op = "Build" /\ result.l = d.child /\ result.err = ErrNone
        /\ opts[OptOf(d.parent)].Level = ErrorLevel
        /\ logger[d.child].logger.cores[1].level = ZapErrorLevel
        /\ logger[d.parent].logger.cores[1].level = ZapInfoLevel

\* C8: no two SetOptions calls run their setter loops on the same Options
\* record at the same time.
C8_SetterLoopsExclusivePerOptions ==
    \A s, t \in Threads :
        (s # t /\ th[s].pc = "set" /\ th[t].pc = "set") => OptOf(th[s].l) # OptOf(th[t].l)

\* C9: build makes one core per "stdout" or "file" entry of the output paths,
\* in their order and once per repetition, all with one encoder and one level;
\* a record at or above that level is written once to each of them, so k times
\* for k recognized entries, and a record below it is not written.
C9_OneSinkPerRecognizedPath ==
    LET o == opts[1]
        paths == o.OutputPaths
        k == Cardinality(RecognizedAt(paths))
        shaped(cores) ==
            /\ Len(cores) = k
            /\ \A j \in 1..k :
                  /\ cores[j].sink = paths[NthRecognized(paths, j)]
                  /\ cores[j].encoder = EncoderOf(o)
                  /\ cores[j].level = cores[1].level
    IN  /\ \A t \in Threads : th[t].pc \in {"name", "ret"} => shaped(th[t].cores)
        /\ ~logger[1].logger.isNil => shaped(logger[1].logger.cores)
        /\ written.l = 1 =>
              /\ Len(written.lines) =
                    IF written.level >= logger[1].logger.cores[1].level THEN k ELSE 0
              /\ \A j \in DOMAIN written.lines :
                    written.lines[j].sink = paths[NthRecognized(paths, j)]

C9_Witness ==
    /\ opts[1].OutputPaths = <<FileOutputPath, FileOutputPath>>
    /\ written.l = 1
    /\ Len(written.lines) = 2
    /\ written.lines[1].sink = FileOutputPath
    /\ written.lines[2].sink = FileOutputPath

\* C10: a Build that overlaps SetOptions calls on its logger's Options returns
\* what build gives for the Options as they were before or after a whole
\* call, never for a record with only some setters of a call applied.
C10_BuildSeesWholeBatches ==
    \A t \in Threads :
        th[t].pc = "ret" =>
            \E c \in th[t].cands \cup
                     {ApplyAll(th[s].batch, th[s].before) : s \in Setting(OptOf(th[t].l))} :
                build(c) = [logger |-> th[t].built, err |-> th[t].err]

====
